---- MODULE Spec2Model ----
(***************************************************************************)
(* HallDataR (src/HallDataR.py): the sample store (eleven parallel lists), *)
(* its csv serialisation, the magnet ramp loops and the field sweep.       *)
(*                                                                         *)
(* Conventions of the model                                                *)
(*  - Python floats are modelled by integers in units in which the model's *)
(*    values are whole; the 10% band r > 1.1*f, r < .9*f is computed       *)
(*    exactly as 10*r > 11*f, 10*r < 9*f.                                  *)
(*  - Python lists are sequences; a Python index i is element i+1.         *)
(*  - Text is a sequence of lexical tokens: each number, each timestamp    *)
(*    and each punctuation character is one token, so two texts are equal  *)
(*    exactly when their token sequences are.                              *)
(*  - datetime.now() is a logical clock: the n-th call returns n.          *)
(*  - An instrument call (write or query, float() of the response          *)
(*    included) either succeeds or raises; the exception leaves the whole  *)
(*    call, there being no try/except in the source.                       *)
(*  - The magnet reports the same number for FIELD:MAG? and CURR:MAG?      *)
(*    (a coil constant of one model unit); it moves only while it is       *)
(*    polled in a ramp and holds its last reading otherwise.  The other    *)
(*    instruments report fixed values, distinct per quantity.              *)
(***************************************************************************)
EXTENDS Integers, Sequences, FiniteSets, TLC

VARIABLES
    times, diodevs, currs, fields, ef_vs, ef_os, bf_vs, bf_os, ad_vs, ad_os,
    freqs,          \* the eleven lists of self (lines 72-82)
    time_constant,  \* <<>> while the attribute does not exist, <<n>> once set
    csv,            \* content of the csv file, a sequence of tokens
    clock,          \* number of datetime.now() calls so far
    mag,            \* the magnet's last reading
    call,           \* the current (or most recent) top-level call
    pc,             \* its position; "idle" when no call is running
    outcome,        \* "none" | "ok" | "raised": how the last call ended
    target,         \* argument of the running change_field / change_current
    sweep,          \* argument `fields` of the running multi_measure
    todo,           \* the targets the for loop has not yet taken
    k,              \* iterations done of `for _ in range(5)`
    ret,            \* value returned by the last measure(), -1 if none
    arg,            \* argument i of the last write_line_to_csv, -1 if none
    hist,           \* trace of the call: mag_ctrl writes, rows, log lines
    failed,         \* an instrument call has raised during this call
    pre,            \* the eleven lists as they were when the call began
    pre_csv,        \* the file as it was when the call began
    rt,             \* round-trip tracking: "none" | "exported" | "imported"
    snap,           \* the eleven lists before the export being tracked
    ncalls          \* number of top-level calls made

store == <<times, diodevs, currs, fields, ef_vs, ef_os, bf_vs, bf_os,
           ad_vs, ad_os, freqs>>
ctl   == <<call, pc, outcome, target, sweep, todo, k, ret, arg,
           hist, failed, pre, pre_csv, rt, snap, ncalls>>
vars  == <<store, time_constant, csv, clock, mag, ctl>>

----------------------------------------------------------------------------
(* Bounds of the model *)
MaxCalls    == 2    \* top-level calls followed in one session
MaxFields   == 2    \* longest `fields` argument of multi_measure
MaxMeasures == 2    \* measure() calls behind a store the csv methods start on

Targets   == {-10, 0, 10}          \* arguments of the ramps
SweepTargets == {-10, 10}          \* elements of the argument of the sweep
Readings  == {-20, -10, 0, 10, 20}        \* what FIELD:MAG? / CURR:MAG? may return
TimeConstantArgs == {7, 20}        \* arguments of setup (20 is out of range)

----------------------------------------------------------------------------
(* Program constants *)
NumTimeConstants == 20      \* len(HallDataR.time_constants)
SamplesPerTarget == 5       \* range(5)

----------------------------------------------------------------------------
(* Text *)

\* str(x) / repr(x) of a float: one number token
Str(x) == ToString(x) \o ".0"

\* datetime.isoformat(): one timestamp token
isoformat(t) == "T" \o ToString(t)

RECURSIVE Joined(_, _)
\* ", ".join(repr(x) for x in xs[:n])
Joined(xs, n) ==
    IF n = 0 THEN <<>>
    ELSE IF n = 1 THEN <<Str(xs[1])>>
    ELSE Joined(xs, n - 1) \o <<",", " ", Str(xs[n])>>

\* str(xs) of a list of floats: "[a, b, c]"
StrList(xs) == <<"[">> \o Joined(xs, Len(xs)) \o <<"]">>

----------------------------------------------------------------------------
(* The instruments *)

\* The response, already through float(), of the instruments that do not move
Resp(q) ==
    CASE q = "READ?"     -> 1      \* dmm
      [] q = "OUTP? 3 0" -> 3      \* lockins[0], R
      [] q = "OUTP? 4 0" -> 4      \* lockins[0], theta
      [] q = "OUTP? 3 1" -> 5      \* lockins[1], R
      [] q = "OUTP? 4 1" -> 6      \* lockins[1], theta
      [] q = "OUTP? 3 2" -> 7      \* lockins[2], R
      [] q = "OUTP? 4 2" -> 8      \* lockins[2], theta
      [] q = "FREQ?"     -> 9      \* lockin1
      [] OTHER           -> 0

\* The while condition's two comparisons (lines 253-254, 268-269)
Above(r, f) == 10 * r > 11 * f
Below(r, f) == 10 * r < 9 * f

\* A write to mag_ctrl, as an entry of hist
W(cmd) == <<"mag_ctrl.write", cmd>>

----------------------------------------------------------------------------
(* The sample store *)

\* self.data (lines 83-84): the ten lists, by reference, in this order:
\* diodevs, currs, fields, ef_vs, ef_os, bf_vs, bf_os, ad_vs, ad_os, freqs
data(st) == SubSeq(st, 2, 11)

\* Position in `store` of the list each statement of measure() appends to
\* (lines 171-181): times, diodevs, currs, fields, bf_vs, bf_os, ef_vs, ef_vs,
\* ad_vs, ad_vs, freqs
MeasureSteps == <<1, 2, 3, 4, 7, 8, 5, 5, 9, 9, 11>>

\* The value each statement of measure() appends, at time t with the magnet
\* reporting m
MeasureVals(t, m) ==
    <<t, Resp("READ?"), m, m,
      Resp("OUTP? 3 0"), Resp("OUTP? 4 0"),
      Resp("OUTP? 3 1"), Resp("OUTP? 4 1"),
      Resp("OUTP? 3 2"), Resp("OUTP? 4 2"), Resp("FREQ?")>>

RECURSIVE Gain(_, _, _, _)
\* What the first n statements of measure() append to list number c
Gain(c, n, t, m) ==
    IF n = 0 THEN <<>>
    ELSE Gain(c, n - 1, t, m) \o
         (IF MeasureSteps[n] = c THEN <<MeasureVals(t, m)[n]>> ELSE <<>>)

\* The lists st after the first n statements of measure() have run;
\* statement n + 1, if any, is the one whose query raised
MeasureOn(st, t, m, n) == [c \in 1..11 |-> st[c] \o Gain(c, n, t, m)]

Measured(n) == MeasureOn(store, clock + 1, mag, n)

RECURSIVE Columns(_, _)
\* for datum in self.data: write(str(datum)); write(',')   (lines 113-115)
Columns(dat, n) ==
    IF n = 0 THEN <<>>
    ELSE Columns(dat, n - 1) \o StrList(dat[n]) \o <<",">>

\* The text write_line_to_csv(filename, i) writes (lines 111-116)
Line(st, i) ==
    <<isoformat(st[1][i + 1]), ",">> \o Columns(data(st), 10) \o <<"\n">>

RECURSIVE Lines(_, _)
\* The text export_to_csv writes: the lines of rows 0 .. n-1 (lines 126-127)
Lines(st, n) ==
    IF n = 0 THEN <<>> ELSE Lines(st, n - 1) \o Line(st, n - 1)

\* time_constants[time_constant] (line 160) can be evaluated
ValidTimeConstant ==
    /\ time_constant # <<>>
    /\ time_constant[1] >= -NumTimeConstants
    /\ time_constant[1] < NumTimeConstants

----------------------------------------------------------------------------
(* Control *)

\* A sweep that skips the target at which an instrument call raised
OnErrorSkip == "loop"

\* Where control goes when a statement raises: no method of the class has a
\* try/except, so the exception ends the call
OnError == "idle"

\* A loop that takes the targets from the wrong end
NextTargetLast(s) == s[Len(s)]

\* The for loop of multi_measure takes the targets in the order given
NextTarget(s) == Head(s)

Rest(s) == Tail(s)

\* A sweep that ends by zeroing the field program instead
FinalCmdField == "CONF:FIELD:PROG " \o ToString(0)

\* The command multi_measure ends with (line 163)
FinalCmd == "CONF:CURR:PROG " \o ToString(0)

\* The command a ramp begins with (lines 251, 266)
ProgCmd ==
    IF call = "change_current"
    THEN "CONF:CURR:PROG " \o Str(target)
    ELSE "CONF:FIELD:PROG " \o Str(target)

\* The arguments `fields` of multi_measure
FieldSeqs == UNION {[1..n -> SweepTargets] : n \in 0..MaxFields}

SetStore(st) ==
    /\ times' = st[1]  /\ diodevs' = st[2] /\ currs' = st[3]
    /\ fields' = st[4] /\ ef_vs' = st[5]   /\ ef_os' = st[6]
    /\ bf_vs' = st[7]  /\ bf_os' = st[8]   /\ ad_vs' = st[9]
    /\ ad_os' = st[10] /\ freqs' = st[11]

\* What every top-level call does to the bookkeeping when it begins.  A
\* session is followed for MaxCalls calls or up to the end of its first
\* sweep, whichever comes first.
Begin(name) ==
    /\ pc = "idle"
    /\ ncalls < MaxCalls
    /\ call # "multi_measure"
    /\ ncalls' = ncalls + 1
    /\ call' = name
    /\ pre' = store
    /\ pre_csv' = csv

\* The object after __init__ (lines 72-84), before any call
Init ==
    /\ times = <<>>  /\ diodevs = <<>> /\ currs = <<>> /\ fields = <<>>
    /\ ef_vs = <<>>  /\ ef_os = <<>>   /\ bf_vs = <<>> /\ bf_os = <<>>
    /\ ad_vs = <<>>  /\ ad_os = <<>>   /\ freqs = <<>>
    /\ time_constant = <<>>
    /\ csv = <<>>
    /\ clock = 0
    /\ mag = 0
    /\ call = "none" /\ pc = "idle" /\ outcome = "none"
    /\ target = 0
    /\ sweep = <<>> /\ todo = <<>> /\ k = 0
    /\ ret = -1 /\ arg = -1
    /\ hist = <<>> /\ failed = FALSE
    /\ pre = store /\ pre_csv = <<>>
    /\ rt = "none" /\ snap = <<>>
    /\ ncalls = 0

\* setup(freq, time_constant), lines 184-223.  The attributes are assigned
\* first; then 26 writes go to the lock-ins and the multimeter, one to
\* mag_ctrl, and line 218 adds a str and a float, which raises TypeError.
setup ==
    /\ Begin("setup")
    /\ \E tc \in TimeConstantArgs : time_constant' = <<tc>>
    /\ \E f \in {"lockin or dmm write", "mag_ctrl write", "none"} :
          /\ failed' = (f # "none")
          /\ hist' = IF f = "lockin or dmm write" THEN <<>>
                     ELSE <<W("CONF:CURR:MAX 72")>>
    /\ outcome' = "raised"
    /\ ret' = -1 /\ arg' = -1 /\ rt' = "none" /\ snap' = <<>>
    /\ UNCHANGED <<store, csv, clock, mag, pc, target, sweep, todo, k>>

\* measure(), lines 165-182, called by the user.  n statements run; the
\* query of statement n + 1 raises when n < 11.
measure ==
    /\ Begin("measure")
    /\ \E n \in 1..Len(MeasureSteps) :
          /\ SetStore(Measured(n))
          /\ failed' = (n < Len(MeasureSteps))
          /\ outcome' = IF n < Len(MeasureSteps) THEN "raised" ELSE "ok"
          /\ ret' = IF n < Len(MeasureSteps) THEN -1 ELSE Len(times') - 1
    /\ clock' = clock + 1
    /\ hist' = <<>>
    /\ arg' = -1 /\ rt' = "none" /\ snap' = <<>>
    /\ UNCHANGED <<time_constant, csv, mag, pc, target, sweep, todo, k>>

\* write_line_to_csv(filename, i), lines 104-116, called by the user with
\* 0 <= i <= len(times); times[i] raises IndexError when i = len(times)
write_line_to_csv ==
    /\ Begin("write_line_to_csv")
    /\ \E i \in 0..Len(times) :
          /\ arg' = i
          /\ IF i < Len(times)
             THEN csv' = csv \o Line(store, i) /\ outcome' = "ok"
             ELSE csv' = csv /\ outcome' = "raised"
    /\ hist' = <<>> /\ failed' = FALSE
    /\ ret' = -1 /\ rt' = "none" /\ snap' = <<>>
    /\ UNCHANGED <<store, time_constant, clock, mag, pc, target, sweep,
                   todo, k>>

\* export_to_csv(filename), lines 119-127
export_to_csv ==
    /\ Begin("export_to_csv")
    /\ csv' = csv \o Lines(store, Len(times))
    /\ outcome' = "ok"
    /\ rt' = IF csv = <<>> THEN "exported" ELSE "none"
    /\ snap' = IF csv = <<>> THEN store ELSE <<>>
    /\ hist' = <<>> /\ failed' = FALSE /\ ret' = -1 /\ arg' = -1
    /\ UNCHANGED <<store, time_constant, clock, mag, pc, target, sweep,
                   todo, k>>

\* import_from_csv(filename), lines 129-146.  Line 135 clears times; line 136
\* reads the local `data` before line 140 assigns it: UnboundLocalError.
import_from_csv ==
    /\ Begin("import_from_csv")
    /\ times' = <<>>
    /\ outcome' = "raised"
    /\ rt' = IF rt = "exported" THEN "imported" ELSE "none"
    /\ snap' = IF rt = "exported" THEN snap ELSE <<>>
    /\ hist' = <<>> /\ failed' = FALSE /\ ret' = -1 /\ arg' = -1
    /\ UNCHANGED <<diodevs, currs, fields, ef_vs, ef_os, bf_vs, bf_os, ad_vs,
                   ad_os, freqs, time_constant, csv, clock, mag, pc, target,
                   sweep, todo, k>>

\* The first statement of a ramp is next
StartRamp ==
    /\ \E f \in Targets : target' = f
    /\ pc' = "prog"
    /\ outcome' = "none"
    /\ hist' = <<>> /\ failed' = FALSE
    /\ ret' = -1 /\ arg' = -1 /\ rt' = "none" /\ snap' = <<>>
    /\ UNCHANGED <<store, time_constant, csv, clock, mag, sweep, todo, k>>

\* change_field(field), line 259, called by the user
change_field ==
    /\ Begin("change_field")
    /\ StartRamp

\* change_current(amps), line 244, called by the user
change_current ==
    /\ Begin("change_current")
    /\ StartRamp

\* multi_measure(fields, filename) called by the user, line 156
multi_measure ==
    /\ Begin("multi_measure")
    /\ \E fs \in FieldSeqs : sweep' = fs /\ todo' = fs
    /\ pc' = "loop"
    /\ outcome' = "none"
    /\ k' = 0
    /\ hist' = <<>> /\ failed' = FALSE
    /\ ret' = -1 /\ arg' = -1 /\ rt' = "none" /\ snap' = <<>>
    /\ UNCHANGED <<store, time_constant, csv, clock, mag, target>>

----------------------------------------------------------------------------
(* The steps of the running call *)

\* A statement that may raise: control goes on to `onward`, or the call ends
\* with the exception
Goes(ok, onward) ==
    /\ pc' = IF ok THEN onward ELSE OnError
    /\ outcome' = IF ~ok THEN "raised"
                  ELSE IF onward = "idle" THEN "ok" ELSE outcome

\* mag_ctrl.write("CONF:FIELD:PROG " + str(field)), lines 251, 266
ramp_prog ==
    /\ pc = "prog"
    /\ hist' = Append(hist, W(ProgCmd))
    /\ \E ok \in BOOLEAN : failed' = ~ok /\ Goes(ok, "ramp")
    /\ UNCHANGED <<store, time_constant, csv, clock, mag, call, target,
                   sweep, todo, k, ret, arg, pre, pre_csv, rt, snap, ncalls>>

\* mag_ctrl.write('RAMP'), lines 252, 267
ramp_ramp ==
    /\ pc = "ramp"
    /\ hist' = Append(hist, W("RAMP"))
    /\ \E ok \in BOOLEAN : failed' = ~ok /\ Goes(ok, "poll1")
    /\ UNCHANGED <<store, time_constant, csv, clock, mag, call, target,
                   sweep, todo, k, ret, arg, pre, pre_csv, rt, snap, ncalls>>

\* The operand of the while condition that is being evaluated
Loops(operand, r, f) == IF operand = 1 THEN Above(r, f) ELSE Below(r, f)

\* One query of the while condition: the magnet reports any reading, or the
\* query raises
Poll(operand, onward) ==
    /\ \E r \in Readings, ok \in BOOLEAN :
          /\ failed' = ~ok
          /\ mag' = IF ok THEN r ELSE mag
          /\ Goes(ok, IF Loops(operand, r, target) THEN "body" ELSE onward)
    /\ UNCHANGED <<store, time_constant, csv, clock, call, target, sweep,
                   todo, k, ret, arg, hist, pre, pre_csv, rt, snap, ncalls>>

\* float(query(...)) > 1.1*target: the first operand of `or`, lines 253, 268.
\* When it is true the second query is not made.
ramp_poll1 ==
    /\ pc = "poll1"
    /\ Poll(1, "poll2")

\* float(query(...)) < .9*target: the second operand, lines 254, 269
ramp_poll2 ==
    /\ pc = "poll2"
    /\ Poll(2, "pause")

\* The loop body: time.sleep(.1) (line 255) or pass (line 270)
ramp_body ==
    /\ pc = "body"
    /\ pc' = "poll1"
    /\ UNCHANGED <<store, time_constant, csv, clock, mag, call, outcome,
                   target, sweep, todo, k, ret, arg, hist, failed, pre,
                   pre_csv, rt, snap, ncalls>>

\* time.sleep(.5); mag_ctrl.write("PAUSE"), and the return: to line 159 when
\* multi_measure made the call, to the user otherwise
ramp_pause ==
    /\ pc = "pause"
    /\ hist' = Append(hist, W("PAUSE"))
    /\ \E ok \in BOOLEAN :
          /\ failed' = ~ok
          /\ Goes(ok, IF call = "multi_measure" THEN "sample" ELSE "idle")
    /\ k' = 0
    /\ UNCHANGED <<store, time_constant, csv, clock, mag, call, target,
                   sweep, todo, ret, arg, pre, pre_csv, rt, snap, ncalls>>

\* `for field in fields`, line 157: the next target and change_field(field),
\* or line 163 when none is left
mm_loop ==
    /\ pc = "loop"
    /\ IF todo = <<>>
       THEN pc' = "final" /\ UNCHANGED <<target, todo>>
       ELSE pc' = "prog" /\ target' = NextTarget(todo) /\ todo' = Rest(todo)
    /\ UNCHANGED <<store, time_constant, csv, clock, mag, call, outcome,
                   sweep, k, ret, arg, hist, failed, pre, pre_csv, rt, snap,
                   ncalls>>

\* One iteration of `for _ in range(5)`, lines 160-162: the sleep, whose
\* argument needs self.time_constant; measure(); write_line_to_csv(index)
mm_sample ==
    /\ pc = "sample"
    /\ IF ~ValidTimeConstant
       THEN \* AttributeError or IndexError at line 160
            /\ Goes(FALSE, "sample")
            /\ UNCHANGED <<store, csv, clock, k, ret, hist, failed>>
       ELSE \E n \in 1..Len(MeasureSteps) :
            /\ SetStore(Measured(n))
            /\ clock' = clock + 1
            /\ IF n < Len(MeasureSteps)
               THEN /\ failed' = TRUE
                    /\ Goes(FALSE, "sample")
                    /\ UNCHANGED <<csv, k, ret, hist>>
               ELSE /\ failed' = FALSE
                    /\ ret' = Len(times') - 1
                    /\ csv' = csv \o Line(Measured(n), ret')
                    /\ hist' = hist \o <<<<"row", Str(target)>>,
                                         <<"line", ToString(ret')>>>>
                    /\ k' = k + 1
                    /\ Goes(TRUE, IF k + 1 < SamplesPerTarget
                                  THEN "sample" ELSE "loop")
    /\ UNCHANGED <<time_constant, mag, call, target, sweep, todo, arg, pre,
                   pre_csv, rt, snap, ncalls>>

\* mag_ctrl.write("CONF:CURR:PROG " + str(0)), line 163, and the return
mm_final ==
    /\ pc = "final"
    /\ hist' = Append(hist, W(FinalCmd))
    /\ \E ok \in BOOLEAN : failed' = ~ok /\ Goes(ok, "idle")
    /\ UNCHANGED <<store, time_constant, csv, clock, mag, call, target,
                   sweep, todo, k, ret, arg, pre, pre_csv, rt, snap, ncalls>>

Step ==
    \/ ramp_prog \/ ramp_ramp \/ ramp_poll1 \/ ramp_poll2 \/ ramp_body
    \/ ramp_pause \/ mm_loop \/ mm_sample \/ mm_final

\* A session on the instruments
Next ==
    \/ setup \/ measure \/ change_field \/ change_current \/ multi_measure
    \/ Step

Spec == Init /\ [][Next]_vars

\* The interpreter runs the next statement of a running call
FairSpec == Spec /\ WF_vars(Step)

----------------------------------------------------------------------------
(* The csv methods on the stores that measure() leaves *)

RECURSIVE Sessions(_)
\* <<lists, clock>> after at most j calls of measure(), complete or not,
\* with the magnet anywhere
Sessions(j) ==
    IF j = 0 THEN {<<[c \in 1..11 |-> <<>>], 0>>}
    ELSE LET S == Sessions(j - 1)
         IN  S \cup {<<MeasureOn(s[1], s[2] + 1, m, n), s[2] + 1>> :
                       s \in S, m \in Readings, n \in 1..Len(MeasureSteps)}

InitStore ==
    /\ \E s \in Sessions(MaxMeasures) :
          /\ times = s[1][1]  /\ diodevs = s[1][2] /\ currs = s[1][3]
          /\ fields = s[1][4] /\ ef_vs = s[1][5]   /\ ef_os = s[1][6]
          /\ bf_vs = s[1][7]  /\ bf_os = s[1][8]   /\ ad_vs = s[1][9]
          /\ ad_os = s[1][10] /\ freqs = s[1][11]
          /\ clock = s[2]
    /\ time_constant = <<>>
    /\ csv = <<>>
    /\ mag = 0
    /\ call = "none" /\ pc = "idle" /\ outcome = "none"
    /\ target = 0
    /\ sweep = <<>> /\ todo = <<>> /\ k = 0
    /\ ret = -1 /\ arg = -1
    /\ hist = <<>> /\ failed = FALSE
    /\ pre = store /\ pre_csv = <<>>
    /\ rt = "none" /\ snap = <<>>
    /\ ncalls = 0

NextStore == write_line_to_csv \/ export_to_csv \/ import_from_csv

StoreSpec == InitStore /\ [][NextStore]_vars

----------------------------------------------------------------------------
(* The claims *)

Polling == {"poll1", "poll2", "body"}

Ended(name) == call = name /\ pc = "idle"

\* Every list has gained exactly one element / no element since the call began
GainedOne  == \A c \in 1..11 : Len(store[c]) = Len(pre[c]) + 1
GainedNone == \A c \in 1..11 : Len(store[c]) = Len(pre[c])

\* C1: after a call of measure that returns, the eleven lists have the same
\* length
C1_SameLength ==
    (Ended("measure") /\ outcome = "ok") =>
        \A c \in 1..11 : Len(store[c]) = Len(times)

Abs(x) == IF x < 0 THEN -x ELSE x

\* r is within 10% of f: r in [0.9f, 1.1f], the ends taken in either order
InBand(r, f) == 10 * Abs(r - f) <= Abs(f)

\* C2: when change_field(f) returns, the last FIELD:MAG? reading it received
\* lies within 10% of f
C2_ReturnsInBand ==
    (Ended("change_field") /\ outcome = "ok") => InBand(mag, target)

\* C3: a ramp that is polling always comes to leave its polling loop, whatever
\* the readings
C3_RampReturns == (pc \in Polling) ~> (pc \notin Polling)

\* C10: no ramp polls for ever while, from some poll on, every reading equals
\* its target exactly
C10_SettledRampReturns == []<>(pc \notin Polling \/ mag # target)

\* The rows and log lines of one target f, the first of them at index b
RowsAt(f, b) ==
    [i \in 1..10 |-> IF i % 2 = 1 THEN <<"row", Str(f)>>
                     ELSE <<"line", ToString(b + (i \div 2) - 1)>>]

RECURSIVE SweepTrace(_, _, _)
\* The trace of the first j targets of fs, in input order, on a store of b rows
SweepTrace(fs, j, b) ==
    IF j = 0 THEN <<>>
    ELSE SweepTrace(fs, j - 1, b)
         \o <<W("CONF:FIELD:PROG " \o Str(fs[j])), W("RAMP"), W("PAUSE")>>
         \o RowsAt(fs[j], b + 5 * (j - 1))

\* 5n rows, target by target in input order, then the final command
SweptInOrder ==
    /\ Len(times) = Len(pre[1]) + 5 * Len(sweep)
    /\ hist = SweepTrace(sweep, Len(sweep), Len(pre[1]))
              \o <<W("CONF:CURR:PROG 0")>>

C5_EmptySweep ==
    (call = "multi_measure" /\ sweep = <<>>) =>
        /\ store = pre
        /\ csv = pre_csv
        /\ pc \in {"loop", "final", "idle"}
        /\ hist = IF pc = "idle" THEN <<W("CONF:CURR:PROG 0")>> ELSE <<>>

C5_Witness ==
    /\ Ended("multi_measure") /\ sweep = <<>> /\ outcome = "ok"
    /\ hist = <<W("CONF:CURR:PROG 0")>>

\* C9: the step of a sweep in which an instrument call raises ends the sweep
\* with the exception and leaves the file as it was, and the sweep takes no
\* step after it
C9_AbortOnFailure ==
    [][(call = "multi_measure" /\ call' = "multi_measure" /\ failed') =>
          (~failed /\ pc' = "idle" /\ outcome' = "raised" /\ csv' = csv)]_vars

C9_Witness ==
    /\ Ended("multi_measure") /\ failed /\ outcome = "raised"
    /\ k > 0 /\ csv # pre_csv

\* The i-th value of a list as a field, empty when the list has no i-th value
Field(col, i) == IF i + 1 \in DOMAIN col THEN <<Str(col[i + 1])>> ELSE <<>>

RECURSIVE RowFields(_, _, _)
RowFields(st, i, n) ==
    IF n = 1 THEN <<>>
    ELSE RowFields(st, i, n - 1) \o Field(st[n], i) \o <<",">>

\* The line of row i: its timestamp and its value in each of the ten lists
RowLine(st, i) ==
    <<isoformat(st[1][i + 1]), ",">> \o RowFields(st, i, 11) \o <<"\n">>

\* C6: write_line_to_csv(filename, i) appends the line of row i
C6_LineOfRow ==
    (Ended("write_line_to_csv") /\ outcome = "ok") =>
        csv = pre_csv \o RowLine(store, arg)

\* C7: export_to_csv to an empty file, then import_from_csv, leaves the
\* eleven lists as they were before the export
C7_RoundTrip == (rt = "imported") => store = snap

\* C8: a call of measure that raises has appended to every list or to none
C8_AtomicOnFailure ==
    (Ended("measure") /\ outcome = "raised") => (GainedOne \/ GainedNone)

====
